---- MODULE Spec2Model ----
(***************************************************************************)
(* JobPulse Lahore: the job store (app/db.py, app/repo.py), the refresh    *)
(* orchestrator (app/main.py) and the four source adapters                 *)
(* (app/scrapers/*.py).                                                    *)
(*                                                                         *)
(* A Python str is a sequence of one-character strings, so that strip,     *)
(* split, lower, slicing and LIKE are computed character by character.     *)
(* None is the one-element sequence <<"None">>, which no str equals.       *)
(***************************************************************************)
EXTENDS Integers, Sequences, FiniteSets, TLC

VARIABLES
  jobs,      \* the committed rows of table jobs, in id order (id = index)
  clock,     \* the time in seconds (datetime.now / time.perf_counter)
  op,        \* the last call made on the store and what it returned
  last_refresh_at,  \* main._last_refresh_at
  pc,        \* per request thread: where its refresh() call stands
  rf,        \* per request thread: the locals of its refresh() call
  resp,      \* per request thread: what its last refresh() call returned
  g,         \* per request thread: a log of its current or last refresh() call
  done_at,   \* when the last refresh() that passed the gate completed
  ins,       \* per thread: the locals and the result of its insert_jobs call
  db,        \* the database file: who holds the write lock, the open transaction
  overlap,   \* whether the last insert_jobs call began while another ran
  feed,      \* what an adapter's source answers
  out,       \* what the adapter made of it
  query,     \* the arguments of a search
  found,     \* what list_jobs and count_jobs returned for them
  csv        \* the rows export_csv wrote for them

storeVars == <<jobs, clock, op>>
refreshVars == <<last_refresh_at, pc, rf, resp, g, done_at>>
insVars == <<ins, db, overlap>>
adapterVars == <<feed, out>>
searchVars == <<query, found, csv>>
vars == <<jobs, clock, op, last_refresh_at, pc, rf, resp, g, done_at,
          ins, db, overlap, feed, out, query, found, csv>>

\* What the operations of each component leave alone.
storeFrame == <<refreshVars, insVars, adapterVars, searchVars>>
refreshFrame == <<insVars, adapterVars, searchVars>>
insFrame == <<op, refreshVars, adapterVars, searchVars>>
adapterFrame == <<jobs, clock, op, refreshVars, insVars, searchVars>>
searchFrame == <<clock, op, refreshVars, insVars, adapterVars>>

\* ------------------------------------------------------------------ bounds
MaxClock == 1
MaxBatch == 2

\* ----------------------------------------------------------------- strings
None == <<"None">>
Empty == <<>>

\* Python truthiness of an optional str: None and "" are falsy.
Truthy(s) == s # None /\ s # Empty

\* x or y
Or(x, y) == IF Truthy(x) THEN x ELSE y

S_ExampleUrl == <<"h","t","t","p","s",":","/","/","e","x","a","m","p","l","e",".","c","o","m">>
S_PythonIntern == <<"P","y","t","h","o","n"," ","I","n","t","e","r","n">>
S_ExampleCo == <<"E","x","a","m","p","l","e"," ","C","o">>
S_Lahore == <<"L","a","h","o","r","e">>
S_indeed == <<"i","n","d","e","e","d">>
S_Today == <<"T","o","d","a","y">>
S_intern == <<"i","n","t","e","r","n">>
S_DjangoTrainee == <<"D","j","a","n","g","o"," ","T","r","a","i","n","e","e"," ","D","e","v","e","l","o","p","e","r">>
S_SampleLtd == <<"S","a","m","p","l","e"," ","L","t","d">>
S_rozee == <<"r","o","z","e","e">>
S_2daysago == <<"2"," ","d","a","y","s"," ","a","g","o">>
S_trainee == <<"t","r","a","i","n","e","e">>
S_Remote == <<"R","e","m","o","t","e">>
S_remoteok == <<"r","e","m","o","t","e","o","k">>
S_entry == <<"e","n","t","r","y">>
S_junior == <<"j","u","n","i","o","r">>
S_unknown == <<"u","n","k","n","o","w","n">>
S_Unknown == <<"U","n","k","n","o","w","n">>

\* ------------------------------------------------------------- the seed data
\* A job dict as callers pass it: a key the dict lacks reads as None.
JobDict(title, company, location, source, role_type, pdt, pd, url) ==
  [title |-> title, company |-> company, location |-> location,
   source |-> source, role_type |-> role_type, posted_date_text |-> pdt,
   posted_date |-> pd, posted_at |-> None, apply_url |-> url]

JOBS ==
  << JobDict(S_PythonIntern, S_ExampleCo, S_Lahore, S_indeed, S_intern,
             None, S_Today, S_ExampleUrl),
     JobDict(S_DjangoTrainee, S_SampleLtd, S_Lahore, S_rozee, S_trainee,
             None, S_2daysago, S_ExampleUrl) >>

\* ------------------------------------------------------------ the job store
\* A row of table jobs built from a job dict by init_db.
SeedRow(job, now) ==
  [title |-> job.title, company |-> job.company, location |-> job.location,
   source |-> job.source, role_type |-> job.role_type,
   posted_date_text |-> IF job.posted_date = None THEN Empty ELSE job.posted_date,
   posted_at |-> None, apply_url |-> job.apply_url, scraped_at |-> now]

\* A row of table jobs built from a job dict by insert_jobs.
PayloadRow(job, now) ==
  [title |-> job.title, company |-> job.company, location |-> job.location,
   source |-> job.source, role_type |-> job.role_type,
   posted_date_text |->
     IF Truthy(job.posted_date_text) THEN job.posted_date_text
     ELSE IF job.posted_date = None THEN Empty ELSE job.posted_date,
   posted_at |-> job.posted_at, apply_url |-> job.apply_url, scraped_at |-> now]

\* Columns declared NOT NULL.
ViolatesNotNull(row) ==
  \/ row.title = None
  \/ row.company = None
  \/ row.location = None
  \/ row.source = None
  \/ row.role_type = None
  \/ row.posted_date_text = None
  \/ row.apply_url = None

\* apply_url TEXT NOT NULL UNIQUE (a mutant drops the constraint).
ViolatesUniqueDropped(tbl, row) == FALSE

ViolatesUnique(tbl, row) ==
  \E i \in DOMAIN tbl : tbl[i].apply_url = row.apply_url

\* What a conflicting INSERT does: OR IGNORE skips the row (a mutant, the plain
\* INSERT, aborts with IntegrityError).
ConflictPolicyAbort == "ABORT"

ConflictPolicy == "IGNORE"

\* (a mutant: INSERT OR REPLACE deletes the conflicting row and inserts.)
ExecInsertReplace(tbl, row) ==
  IF ViolatesNotNull(row)
  THEN [tbl |-> tbl, rowcount |-> 0, raised |-> FALSE]
  ELSE LET keep == SelectSeq(tbl, LAMBDA r : r.apply_url # row.apply_url)
       IN  [tbl |-> Append(keep, row), rowcount |-> 1, raised |-> FALSE]

\* (a mutant: an upsert, which overwrites the conflicting row in place.)
ExecInsertUpsert(tbl, row) ==
  IF ViolatesNotNull(row)
  THEN [tbl |-> tbl, rowcount |-> 0, raised |-> FALSE]
  ELSE IF ViolatesUnique(tbl, row)
  THEN [tbl |-> [i \in DOMAIN tbl |->
                   IF tbl[i].apply_url = row.apply_url THEN row ELSE tbl[i]],
        rowcount |-> 1, raised |-> FALSE]
  ELSE [tbl |-> Append(tbl, row), rowcount |-> 1, raised |-> FALSE]

\* One INSERT OR IGNORE statement on the table as the connection sees it:
\* the table after it, cursor.rowcount, and whether it raised.
ExecInsert(tbl, row) ==
  IF ViolatesNotNull(row) \/ ViolatesUnique(tbl, row)
  THEN [tbl |-> tbl, rowcount |-> 0, raised |-> ConflictPolicy # "IGNORE"]
  ELSE [tbl |-> Append(tbl, row), rowcount |-> 1, raised |-> FALSE]

\* (a mutant: the loop counts every row it was given, inserted or not.)
RECURSIVE InsertLoopCountsAll(_, _, _, _)
InsertLoopCountsAll(tbl, payload, i, inserted) ==
  IF i > Len(payload)
  THEN [tbl |-> tbl, ret |-> inserted, raised |-> FALSE]
  ELSE InsertLoopCountsAll(ExecInsert(tbl, payload[i]).tbl, payload, i + 1,
                           inserted + 1)

\* The loop of insert_jobs (and executemany of init_db) from row i on.
RECURSIVE InsertLoop(_, _, _, _)
InsertLoop(tbl, payload, i, inserted) ==
  IF i > Len(payload)
  THEN [tbl |-> tbl, ret |-> inserted, raised |-> FALSE]
  ELSE LET r == ExecInsert(tbl, payload[i]) IN
       IF r.raised
       THEN [tbl |-> tbl, ret |-> inserted, raised |-> TRUE]
       ELSE InsertLoop(r.tbl, payload, i + 1, inserted + r.rowcount)

\* insert_jobs(batch) as one transaction on table tbl at time now: the table
\* after the commit (unchanged when the call raised: the with-block rolls
\* back), the returned count and whether it raised.
insert_jobs(tbl, batch, now) ==
  IF batch = <<>>
  THEN [tbl |-> tbl, ret |-> 0, raised |-> FALSE]
  ELSE LET payload == [i \in DOMAIN batch |-> PayloadRow(batch[i], now)]
           r == InsertLoop(tbl, payload, 1, 0)
       IN  IF r.raised THEN [tbl |-> tbl, ret |-> 0, raised |-> TRUE] ELSE r

\* init_db(sample_jobs): the schema is created if missing; the seed rows, if
\* any, are inserted with INSERT OR IGNORE.
init_db(tbl, sample_jobs, now) ==
  IF sample_jobs = <<>>
  THEN tbl
  ELSE LET payload == [i \in DOMAIN sample_jobs |-> SeedRow(sample_jobs[i], now)]
       IN  InsertLoop(tbl, payload, 1, 0).tbl

\* --------------------------------------------------- inputs of the store spec
U2 == <<"u","2">>
U3 == <<"u","3">>
T_Py == <<"P","y">>
T_Dev == <<"D","e","v">>
C_Acme == <<"A","c","m","e">>

\* Well-formed job dicts as the adapters emit them; the first carries the URL
\* of the seed data, with other fields.
BatchJobs ==
  { JobDict(T_Py, C_Acme, S_Remote, S_remoteok, S_entry, S_Today, None, S_ExampleUrl),
    JobDict(T_Py, C_Acme, S_Remote, S_remoteok, S_entry, S_Today, None, U2),
    JobDict(T_Dev, S_Unknown, S_Lahore, S_rozee, S_junior, S_unknown, None, U3) }

SeqsUpTo(S, n) == UNION { [1..k -> S] : k \in 0..n }

Batches == SeqsUpTo(BatchJobs, MaxBatch)

Urls(seq) == { seq[i].apply_url : i \in DOMAIN seq }

\* ------------------------------------------------- the refresh orchestrator
REFRESH_COOLDOWN_SEC == 30
StatusLen == 80

\* _last_refresh_at = None
NoTime == -1

Threads == {1, 2}

E_Rozee == <<"4","0","3"," ","C","l","i","e","n","t"," ","E","r","r","o","r",":"," ","F","o","r","b","i","d","d","e","n"," ","f","o","r"," ","u","r","l",":"," ","h","t","t","p","s",":","/","/","w","w","w",".","r","o","z","e","e",".","p","k","/","j","o","b","/","j","s","e","a","r","c","h","/","q","/","p","y","t","h","o","n","%","2","0","l","a","h","o","r","e">>
E_RemoteOK == <<"E","x","p","e","c","t","i","n","g"," ","v","a","l","u","e",":"," ","l","i","n","e"," ","1"," ","c","o","l","u","m","n"," ","1"," ","(","c","h","a","r"," ","0",")">>
E_WWR == <<"s","y","n","t","a","x"," ","e","r","r","o","r",":"," ","l","i","n","e"," ","1",","," ","c","o","l","u","m","n"," ","0">>
E_GitHubJobs == <<"'","i","n","t","'"," ","o","b","j","e","c","t"," ","h","a","s"," ","n","o"," ","a","t","t","r","i","b","u","t","e"," ","'","s","t","r","i","p","'">>
E_Integrity == <<"U","N","I","Q","U","E"," ","c","o","n","s","t","r","a","i","n","t"," ","f","a","i","l","e","d",":"," ","j","o","b","s",".","a","p","p","l","y","_","u","r","l">>
N_Rozee == <<"R","o","z","e","e">>
N_RemoteOK == <<"R","e","m","o","t","e","O","K">>
N_WWR == <<"W","W","R">>
N_GitHubJobs == <<"G","i","t","H","u","b","J","o","b","s">>
S_ok == <<"o","k">>
S_weworkremotely == <<"w","e","w","o","r","k","r","e","m","o","t","e","l","y">>
S_github_jobs == <<"g","i","t","h","u","b","_","j","o","b","s">>

\* The four run(...) calls of refresh(), in order.
Sources == <<N_Rozee, N_RemoteOK, N_WWR, N_GitHubJobs>>

Min(a, b) == IF a < b THEN a ELSE b

\* s[:n]
Take(s, n) == SubSeq(s, 1, Min(n, Len(s)))

\* s.replace(a, b) for one-character a and b
ReplaceChar(s, a, b) == [i \in DOMAIN s |-> IF s[i] = a THEN b ELSE s[i]]

\* str(e)[:80].replace(" ", "_")
ErrorStatus(msg) == ReplaceChar(Take(msg, StatusLen), " ", "_")

\* (a mutant: <= in place of <.)
RateLimitedLe(now, last) ==
  last # NoTime /\ (now - last) <= REFRESH_COOLDOWN_SEC

\* _last_refresh_at is not None and (now - _last_refresh_at) < REFRESH_COOLDOWN_SEC
RateLimited(now, last) ==
  last # NoTime /\ (now - last) < REFRESH_COOLDOWN_SEC

\* (a mutant: no try/except, the adapter's exception leaves _run_source.)
run_source_uncaught(tbl, o, now) ==
  IF o.raised
  THEN [tbl |-> tbl, fetched |-> 0, inserted |-> 0, status |-> Empty,
        propagated |-> TRUE]
  ELSE LET r == insert_jobs(tbl, o.jobs, now) IN
       [tbl |-> r.tbl, fetched |-> Len(o.jobs), inserted |-> r.ret,
        status |-> S_ok, propagated |-> r.raised]

\* _run_source(name, fetch_fn, insert_fn) on table tbl, fetch_fn's outcome
\* being o: the table after it and the tuple (fetched, inserted, status).
\* Every Exception of fetch_fn or insert_fn is caught.
run_source(tbl, o, now) ==
  IF o.raised
  THEN [tbl |-> tbl, fetched |-> 0, inserted |-> 0,
        status |-> ErrorStatus(o.msg), propagated |-> FALSE]
  ELSE LET r == insert_jobs(tbl, o.jobs, now) IN
       IF r.raised
       THEN [tbl |-> tbl, fetched |-> 0, inserted |-> 0,
             status |-> ErrorStatus(E_Integrity), propagated |-> FALSE]
       ELSE [tbl |-> r.tbl, fetched |-> Len(o.jobs), inserted |-> r.ret,
             status |-> S_ok, propagated |-> FALSE]

\* f"{name} ok" / f"{name} {st}"
StatusPart(name, st) == IF st = S_ok THEN name \o <<" ">> \o S_ok
                        ELSE name \o <<" ">> \o st

\* ", ".join(parts)
RECURSIVE JoinComma(_)
JoinComma(parts) ==
  IF parts = <<>> THEN Empty
  ELSE IF Len(parts) = 1 THEN parts[1]
  ELSE parts[1] \o <<",", " ">> \o JoinComma(Tail(parts))

\* The locals of refresh() after the gate.
Locals0 == [status_parts |-> <<>>, total_fetched |-> 0, total_inserted |-> 0,
            results |-> <<>>]

\* The body of run(name, fetch_fn, insert_fn) given _run_source's tuple.
RunLocals(l, name, r) ==
  [status_parts |-> Append(l.status_parts, StatusPart(name, r.status)),
   total_fetched |-> l.total_fetched + r.fetched,
   total_inserted |-> l.total_inserted + r.inserted,
   results |-> Append(l.results,
                      [name |-> name, fetched |-> r.fetched,
                       inserted |-> r.inserted, status |-> r.status])]

\* RedirectResponse(url="/?rate_limited=1&refreshed=0")
RateLimitedResponse == [kind |-> "rate_limited"]

\* RedirectResponse(url="/" + params): the report of a refresh that ran.
RefreshedResponse(l) ==
  [kind |-> "refreshed", fetched |-> l.total_fetched,
   inserted |-> l.total_inserted, results |-> l.results,
   refresh_status |-> JoinComma(l.status_parts)]

\* No response yet, and the response of a call that raised.
NoResponse == [kind |-> "none"]
RaisedResponse == [kind |-> "raised"]

\* The log of one refresh() call: when it read the clock, when the last
\* refresh that ran had completed, whether the gate stopped it, and what
\* each adapter it invoked did.
NoLog == [start |-> NoTime, prev |-> NoTime, limited |-> FALSE, rows0 |-> 0,
          invoked |-> <<>>]

RefreshIdle ==
  /\ last_refresh_at = NoTime
  /\ pc = [t \in Threads |-> 0]
  /\ rf = [t \in Threads |-> Locals0]
  /\ resp = [t \in Threads |-> NoResponse]
  /\ g = [t \in Threads |-> NoLog]
  /\ done_at = NoTime


\* ------------------------------------ insert_jobs on its own connection
\* The locals of an insert_jobs call (payload, the loop index i, inserted),
\* with a log of the call: the URLs committed when it began (pre), the URLs
\* whose INSERT had rowcount 1 (got), and, once it has returned (pc "done"),
\* what it returned.
InsNone == [pc |-> "idle", payload |-> <<>>, i |-> 0, inserted |-> 0,
            pre |-> {}, got |-> <<>>, raised |-> FALSE]

\* No connection holds the write lock, no transaction is open.
DbFree == [lock |-> 0, txn |-> <<>>]

InsIdle ==
  /\ ins = [t \in Threads |-> InsNone]
  /\ db = DbFree
  /\ overlap = FALSE

\* ------------------------------------------------ adapters and search, idle
AdapterIdle ==
  /\ feed = <<>>
  /\ out = <<>>

SearchIdle ==
  /\ query = <<>>
  /\ found = <<>>
  /\ csv = <<>>

\* ----------------------------------------------------- the store's operations
NoOp == [name |-> "none", batch |-> <<>>, ret |-> 0, raised |-> FALSE,
         repeat |-> FALSE, before |-> <<>>]

StoreInit ==
  /\ jobs = <<>>
  /\ clock = 0
  /\ op = NoOp
  /\ RefreshIdle
  /\ InsIdle
  /\ AdapterIdle
  /\ SearchIdle

\* Time passes.
Tick ==
  /\ clock < MaxClock
  /\ clock' = clock + 1
  /\ UNCHANGED <<jobs, op>>
  /\ UNCHANGED storeFrame

\* bootstrap_db: init_db() or, with SEED_DB=true, init_db(sample_jobs=JOBS).
InitDb ==
  \E seed \in {<<>>, JOBS} :
    /\ jobs' = init_db(jobs, seed, clock)
    /\ op' = [name |-> "init_db", batch |-> seed, ret |-> 0, raised |-> FALSE,
              repeat |-> FALSE, before |-> jobs]
    /\ UNCHANGED clock
    /\ UNCHANGED storeFrame

\* insert_jobs(batch); op records the call: repeat says that the call before
\* it was insert_jobs of the same batch, before is the table it started on.
InsertJobs ==
  \E batch \in Batches :
    LET r == insert_jobs(jobs, batch, clock) IN
    /\ jobs' = r.tbl
    /\ op' = [name |-> "insert_jobs", batch |-> batch, ret |-> r.ret,
              raised |-> r.raised,
              repeat |-> (op.name = "insert_jobs" /\ op.batch = batch /\ ~op.raised),
              before |-> jobs]
    /\ UNCHANGED clock
    /\ UNCHANGED storeFrame

StoreNext == Tick \/ InitDb \/ InsertJobs

Spec == StoreInit /\ [][StoreNext]_vars

\* ------------------------------------------------------ claims on the store
\* C1: in every reachable state of the store no two rows have the same
\* apply_url.
C1_UniqueApplyUrl ==
  \A i, j \in DOMAIN jobs : i # j => jobs[i].apply_url # jobs[j].apply_url

\* A batch that repeats a URL which the seed data had stored already.
C1_Witness ==
  /\ op.name = "insert_jobs"
  /\ Len(op.batch) = 2
  /\ op.batch[1].apply_url = op.batch[2].apply_url
  /\ op.batch[1].apply_url \in Urls(op.before)
  /\ op.before[1].source = S_indeed
  /\ Len(jobs) >= 2

\* C2: insert_jobs(B) right after insert_jobs(B) returns 0 and leaves the
\* rows of the table as the first call left them.
C2_DedupIdempotent ==
  (op.name = "insert_jobs" /\ op.repeat) =>
    /\ op.ret = 0
    /\ ~op.raised
    /\ jobs = op.before

\* The second call of a batch of two new URLs, made later than the first.
C2_Witness ==
  /\ op.name = "insert_jobs"
  /\ op.repeat
  /\ Cardinality(Urls(op.batch)) = 2
  /\ Urls(op.batch) \subseteq Urls(jobs)
  /\ \E i \in DOMAIN jobs :
       jobs[i].apply_url \in Urls(op.batch) /\ jobs[i].scraped_at < clock

\* C3: insert_jobs returns the number of rows it persisted: the number of
\* distinct URLs of the batch that were not stored, which is the row count
\* after the call minus the row count before it.
C3_InsertedCount ==
  op.name = "insert_jobs" =>
    /\ op.ret = Len(jobs) - Len(op.before)
    /\ op.ret = Cardinality(Urls(op.batch) \ Urls(op.before))
    /\ Urls(jobs) = Urls(op.before) \cup Urls(op.batch)

\* Two URLs stored; a batch of a stored and a new URL returns 1, three rows.
C3_Witness ==
  /\ op.name = "insert_jobs"
  /\ Len(op.before) = 2
  /\ Cardinality(Urls(op.batch) \cap Urls(op.before)) = 1
  /\ Cardinality(Urls(op.batch) \ Urls(op.before)) = 1
  /\ op.ret = 1
  /\ Len(jobs) = 3

\* A batch that repeats a new URL returns 1 for it.
C3_WitnessRepeat ==
  /\ op.name = "insert_jobs"
  /\ Len(op.batch) = 2
  /\ op.batch[1] = op.batch[2]
  /\ op.batch[1].apply_url \notin Urls(op.before)
  /\ op.ret = 1
\* ------------------------------------------------ inputs of the refresh spec
MaxFetched == 1
MaxTime == 60

\* The clock advances by one of these.
TickSteps == {29, 30}

\* The message of the exception adapter k raises when it raises.
ErrMsg(k) == <<E_Rozee, E_RemoteOK, E_WWR, E_GitHubJobs>>[k]

\* The source field adapter k writes.
SourceOf(k) == <<S_rozee, S_remoteok, S_weworkremotely, S_github_jobs>>[k]

\* A job dict adapter k emits; two adapters may emit the same URL.
SampleJob(k) ==
  JobDict(T_Py, C_Acme, S_Remote, SourceOf(k), S_entry, S_Today, None,
          IF k <= 2 THEN U2 ELSE U3)

\* What fetch_fn of adapter k may do: raise, or return a list of job dicts.
Outcomes(k) ==
  { [raised |-> TRUE, msg |-> ErrMsg(k), jobs |-> <<>>] } \cup
  { [raised |-> FALSE, msg |-> Empty, jobs |-> js] :
      js \in SeqsUpTo({SampleJob(k)}, MaxFetched) }

\* ------------------------------------------------------ refresh(), by steps
\* Time passes.
RefreshTick ==
  \E d \in TickSteps :
    /\ clock + d <= MaxTime
    /\ clock' = clock + d
    /\ UNCHANGED <<jobs, op, refreshVars, refreshFrame>>

\* refresh() is called on thread t: it reads the clock and checks the gate.
\* Behind the gate it returns the rate-limited response at once.
RefreshStart(t) ==
  /\ pc[t] = 0
  /\ IF RateLimited(clock, last_refresh_at)
     THEN /\ resp' = [resp EXCEPT ![t] = RateLimitedResponse]
          /\ g' = [g EXCEPT ![t] = [start |-> clock, prev |-> done_at,
                                    limited |-> TRUE, rows0 |-> Len(jobs),
                                    invoked |-> <<>>]]
          /\ UNCHANGED <<pc, rf>>
     ELSE /\ pc' = [pc EXCEPT ![t] = 1]
          /\ rf' = [rf EXCEPT ![t] = Locals0]
          /\ resp' = [resp EXCEPT ![t] = NoResponse]
          /\ g' = [g EXCEPT ![t] = [start |-> clock, prev |-> done_at,
                                    limited |-> FALSE, rows0 |-> Len(jobs),
                                    invoked |-> <<>>]]
  /\ UNCHANGED <<jobs, clock, op, last_refresh_at, done_at, refreshFrame>>

\* run(name, fetch_fn, insert_jobs) for the adapter thread t has reached,
\* the adapter doing o.
RunSourceStep(t, o) ==
  /\ pc[t] \in 1..4
  /\ LET k == pc[t]
         r == run_source(jobs, o, clock)
     IN  /\ jobs' = r.tbl
         /\ g' = [g EXCEPT ![t].invoked =
                    Append(@, [k |-> k, raised |-> o.raised, msg |-> o.msg,
                               n |-> Len(o.jobs),
                               added |-> Len(r.tbl) - Len(jobs)])]
         /\ IF r.propagated
            THEN /\ pc' = [pc EXCEPT ![t] = 0]
                 /\ rf' = [rf EXCEPT ![t] = Locals0]
                 /\ resp' = [resp EXCEPT ![t] = RaisedResponse]
            ELSE /\ pc' = [pc EXCEPT ![t] = k + 1]
                 /\ rf' = [rf EXCEPT ![t] = RunLocals(@, Sources[k], r)]
                 /\ UNCHANGED resp
  /\ UNCHANGED <<clock, op, last_refresh_at, done_at, refreshFrame>>

RunSource(t) ==
  /\ pc[t] \in 1..4
  /\ \E o \in Outcomes(pc[t]) : RunSourceStep(t, o)

\* (a mutant: the timestamp is set only when the run inserted a row.)
RefreshFinishIfInserted(t) ==
  /\ pc[t] = 5
  /\ last_refresh_at' = IF rf[t].total_inserted > 0 THEN clock ELSE last_refresh_at
  /\ done_at' = clock
  /\ resp' = [resp EXCEPT ![t] = RefreshedResponse(rf[t])]
  /\ pc' = [pc EXCEPT ![t] = 0]
  /\ rf' = [rf EXCEPT ![t] = Locals0]
  /\ UNCHANGED <<jobs, clock, op, g, refreshFrame>>

\* _last_refresh_at = time.perf_counter(), and the response is returned.
RefreshFinish(t) ==
  /\ pc[t] = 5
  /\ last_refresh_at' = clock
  /\ done_at' = clock
  /\ resp' = [resp EXCEPT ![t] = RefreshedResponse(rf[t])]
  /\ pc' = [pc EXCEPT ![t] = 0]
  /\ rf' = [rf EXCEPT ![t] = Locals0]
  /\ UNCHANGED <<jobs, clock, op, g, refreshFrame>>

RefreshInit ==
  /\ jobs = <<>>
  /\ clock = 0
  /\ op = NoOp
  /\ RefreshIdle
  /\ InsIdle
  /\ AdapterIdle
  /\ SearchIdle

\* One request at a time.
RefreshNext ==
  \/ RefreshTick
  \/ RefreshStart(1)
  \/ RunSource(1)
  \/ RefreshFinish(1)

SpecRefresh == RefreshInit /\ [][RefreshNext]_vars

\* ------------------------------------------- claims on refresh(), in sequence
\* C4: a refresh() that starts less than 30 s after the last refresh that ran
\* completed is rate-limited, invokes no adapter and inserts nothing; one
\* that starts 30 s or more after it runs all four adapters.
C4_RateLimitGate ==
  LET l == g[1] IN
  l.start # NoTime =>
    /\ l.prev # NoTime =>
         (l.limited <=> l.start - l.prev < REFRESH_COOLDOWN_SEC)
    /\ l.limited =>
         /\ resp[1] = RateLimitedResponse
         /\ pc[1] = 0
         /\ l.invoked = <<>>
         /\ Len(jobs) = l.rows0
    /\ (~l.limited /\ pc[1] = 0) =>
         /\ resp[1].kind = "refreshed"
         /\ Len(l.invoked) = 4
         /\ \A k \in 1..4 : l.invoked[k].k = k

\* A refresh that ran to its end, started exactly 30 s after the one before
\* it completed.
C4_Witness ==
  /\ g[1].prev # NoTime
  /\ g[1].start - g[1].prev = REFRESH_COOLDOWN_SEC
  /\ ~g[1].limited
  /\ pc[1] = 0
  /\ resp[1].kind = "refreshed"

\* A rate-limited call 29 s after a completion, rows being stored.
C4_WitnessLimited ==
  /\ g[1].prev # NoTime
  /\ g[1].start - g[1].prev = REFRESH_COOLDOWN_SEC - 1
  /\ g[1].limited
  /\ resp[1] = RateLimitedResponse
  /\ Len(jobs) = 2

\* C6: a refresh() that passed the gate invokes each of the four adapters
\* once, in order, whatever the others did; an adapter that raised
\* contributes (0, 0, the first 80 characters of the message with "_" for
\* " "), which is not "ok"; one that returned contributes (len(output), the
\* rows its insert added, "ok"); refresh() never raises.
C6_FaultIsolation ==
  /\ resp[1].kind # "raised"
  /\ resp[1].kind = "refreshed" =>
       /\ Len(g[1].invoked) = 4
       /\ Len(resp[1].results) = 4
       /\ \A k \in 1..4 :
            LET o == g[1].invoked[k]
                r == resp[1].results[k]
            IN  /\ o.k = k
                /\ r.name = Sources[k]
                /\ o.raised =>
                     /\ r.fetched = 0
                     /\ r.inserted = 0
                     /\ r.status # S_ok
                     /\ Len(r.status) = Min(StatusLen, Len(o.msg))
                     /\ \A i \in DOMAIN r.status :
                          r.status[i] = IF o.msg[i] = " " THEN "_" ELSE o.msg[i]
                /\ ~o.raised =>
                     /\ r.fetched = o.n
                     /\ r.inserted = o.added
                     /\ r.status = S_ok

\* Rozee raised with a message longer than 80 characters and the other three
\* adapters returned one job each.
C6_Witness ==
  /\ resp[1].kind = "refreshed"
  /\ g[1].invoked[1].raised
  /\ Len(g[1].invoked[1].msg) > StatusLen
  /\ Len(resp[1].results[1].status) = StatusLen
  /\ \A k \in 2..4 : ~g[1].invoked[k].raised /\ resp[1].results[k].fetched = 1
  /\ resp[1].inserted = 2

\* ------------------------------------------ refresh() on two request threads
\* refresh is a sync def endpoint: each request runs on a thread of the
\* server's pool, and no lock guards _last_refresh_at.
\* What the adapters do in this specification: Rozee is blocked and raises,
\* each of the others returns its one job.
ConcOutcome(k) ==
  IF k = 1 THEN [raised |-> TRUE, msg |-> ErrMsg(k), jobs |-> <<>>]
  ELSE [raised |-> FALSE, msg |-> Empty, jobs |-> <<SampleJob(k)>>]

\* A cooldown interval passes.
ConcTick ==
  /\ clock + REFRESH_COOLDOWN_SEC <= MaxTime
  /\ clock' = clock + REFRESH_COOLDOWN_SEC
  /\ UNCHANGED <<jobs, op, refreshVars, refreshFrame>>

ConcRunSource(t) ==
  /\ pc[t] \in 1..4
  /\ RunSourceStep(t, ConcOutcome(pc[t]))

ConcNext ==
  \/ ConcTick
  \/ \E t \in Threads : RefreshStart(t)
  \/ \E t \in Threads : ConcRunSource(t)
  \/ \E t \in Threads : RefreshFinish(t)

SpecRefreshConc == RefreshInit /\ [][ConcNext]_vars

\* C5: of two refresh() calls that overlap in time at most one passes the
\* gate and invokes the adapters.
C5_GateAtomic ==
  ~(pc[1] # 0 /\ pc[2] # 0)

\* ------------------------------------- insert_jobs on two connections at once
\* Each call opens its own connection (get_conn). Python's sqlite3 begins a
\* transaction before the first INSERT, which takes the database's write
\* lock; a second connection's INSERT waits for the lock (the busy handler)
\* until the holder commits at the end of its with-block.

\* The job dicts thread t passes: its own adapter's, for either URL.
InsJob(t, url) ==
  JobDict(T_Py, C_Acme, S_Remote, SourceOf(t), S_entry, S_Today, None, url)

InsBatches(t) == SeqsUpTo({InsJob(t, U2), InsJob(t, U3)}, MaxBatch)

\* insert_jobs(batch) is called on thread t: "if not jobs: return 0", else
\* the payload is built.
InsCall(t) ==
  /\ ins[t].pc \in {"idle", "done"}
  /\ \E batch \in InsBatches(t) :
       ins' = [ins EXCEPT ![t] =
                 [pc |-> IF batch = <<>> THEN "done" ELSE "exec",
                  payload |-> [i \in DOMAIN batch |-> PayloadRow(batch[i], clock)],
                  i |-> 1, inserted |-> 0, pre |-> Urls(jobs), got |-> <<>>,
                  raised |-> FALSE]]
  /\ overlap' = \E o \in Threads \ {t} : ins[o].pc = "exec"
  /\ UNCHANGED <<jobs, clock, db, insFrame>>

\* cur.execute(INSERT OR IGNORE ...) for the next row; inserted += rowcount.
\* An exception leaves the with-block, which rolls the transaction back.
InsExec(t) ==
  /\ ins[t].pc = "exec"
  /\ ins[t].i <= Len(ins[t].payload)
  /\ db.lock \in {0, t}
  /\ LET row == ins[t].payload[ins[t].i]
         r == ExecInsert(IF db.lock = t THEN db.txn ELSE jobs, row)
     IN  IF r.raised
         THEN /\ db' = DbFree
              /\ ins' = [ins EXCEPT ![t].pc = "done", ![t].raised = TRUE,
                                    ![t].inserted = 0]
         ELSE /\ db' = [lock |-> t, txn |-> r.tbl]
              /\ ins' = [ins EXCEPT ![t].i = @ + 1,
                                    ![t].inserted = @ + r.rowcount,
                                    ![t].got = IF r.rowcount = 1
                                               THEN Append(@, row.apply_url)
                                               ELSE @]
  /\ UNCHANGED <<jobs, clock, overlap, insFrame>>

\* The with-block ends: commit; "return inserted".
InsCommit(t) ==
  /\ ins[t].pc = "exec"
  /\ ins[t].i > Len(ins[t].payload)
  /\ db.lock = t
  /\ jobs' = db.txn
  /\ db' = DbFree
  /\ ins' = [ins EXCEPT ![t].pc = "done"]
  /\ UNCHANGED <<clock, overlap, insFrame>>

InsInit ==
  /\ jobs = <<>>
  /\ clock = 0
  /\ op = NoOp
  /\ RefreshIdle
  /\ InsIdle
  /\ AdapterIdle
  /\ SearchIdle

InsNext ==
  \/ \E t \in Threads : InsCall(t)
  \/ \E t \in Threads : InsExec(t)
  \/ \E t \in Threads : InsCommit(t)

SpecInsertConc == InsInit /\ [][InsNext]_vars

Count(seq, x) == Cardinality({i \in DOMAIN seq : seq[i] = x})

S_python == <<"p","y","t","h","o","n">>
S_Python == <<"P","y","t","h","o","n">>
S_at == <<" ","a","t"," ">>
S_dash == <<" ","-"," ">>

IsSpace(c) == c \in {" ", "\t", "\n"}

RECURSIVE LStrip(_)
LStrip(s) ==
  IF s = <<>> THEN s ELSE IF IsSpace(Head(s)) THEN LStrip(Tail(s)) ELSE s

RECURSIVE RStrip(_)
RStrip(s) ==
  IF s = <<>> THEN s
  ELSE IF IsSpace(s[Len(s)]) THEN RStrip(SubSeq(s, 1, Len(s) - 1)) ELSE s

\* s.strip()
Strip(s) == RStrip(LStrip(s))

LowerChar(c) ==
  CASE c = "A" -> "a"
    [] c = "B" -> "b"
    [] c = "C" -> "c"
    [] c = "D" -> "d"
    [] c = "E" -> "e"
    [] c = "F" -> "f"
    [] c = "G" -> "g"
    [] c = "H" -> "h"
    [] c = "I" -> "i"
    [] c = "J" -> "j"
    [] c = "K" -> "k"
    [] c = "L" -> "l"
    [] c = "M" -> "m"
    [] c = "N" -> "n"
    [] c = "O" -> "o"
    [] c = "P" -> "p"
    [] c = "Q" -> "q"
    [] c = "R" -> "r"
    [] c = "S" -> "s"
    [] c = "T" -> "t"
    [] c = "U" -> "u"
    [] c = "V" -> "v"
    [] c = "W" -> "w"
    [] c = "X" -> "x"
    [] c = "Y" -> "y"
    [] c = "Z" -> "z"
    [] OTHER -> c

\* s.lower()
Lower(s) == [i \in DOMAIN s |-> LowerChar(s[i])]

\* s[i : i + len(sub)] == sub, i counted from 1
MatchAt(s, sub, i) ==
  i + Len(sub) - 1 <= Len(s) /\ SubSeq(s, i, i + Len(sub) - 1) = sub

\* sub in s
Contains(s, sub) == \E i \in 1..(Len(s) + 1) : MatchAt(s, sub, i)

\* s.startswith(pre)
StartsWith(s, pre) == MatchAt(s, pre, 1)

\* s.split(sep, 1), sep being in s: the parts before and after the first sep
SplitOnce(s, sep) ==
  LET i == CHOOSE k \in 1..Len(s) :
             MatchAt(s, sep, k) /\ \A j \in 1..(k - 1) : ~MatchAt(s, sep, j)
  IN  << SubSeq(s, 1, i - 1), SubSeq(s, i + Len(sep), Len(s)) >>

\* The heuristic with the tests for "intern" and "trainee" in the other order.
RoleTypeEntryTraineeFirst(title) ==
  LET lt == Lower(title) IN
  IF Contains(lt, S_trainee) THEN S_trainee
  ELSE IF Contains(lt, S_intern) THEN S_intern
  ELSE IF Contains(lt, S_junior) THEN S_junior
  ELSE S_entry

\* The inline role heuristic of the RemoteOK, GitHub Jobs and WWR adapters.
RoleTypeEntry(title) ==
  LET lt == Lower(title) IN
  IF Contains(lt, S_intern) THEN S_intern
  ELSE IF Contains(lt, S_trainee) THEN S_trainee
  ELSE IF Contains(lt, S_junior) THEN S_junior
  ELSE S_entry

\* ------------------------------------------------- the We Work Remotely adapter
\* _text(el): el is the element's text, None when the element or its text
\* is missing.
Text(el) == IF el = None THEN Empty ELSE Strip(el)

\* The title and the company the adapter derives from the item's title.
WWRSplit(title) ==
  IF Contains(title, S_at)
  THEN LET parts == SplitOnce(title, S_at) IN
       [title |-> Strip(parts[1]), company |-> Strip(parts[2])]
  ELSE IF Contains(title, S_dash)
  THEN LET parts == SplitOnce(title, S_dash) IN
       [title |-> Strip(parts[2]), company |-> Strip(parts[1])]
  ELSE [title |-> title, company |-> S_Unknown]

\* The "company" value of the dict appended to out: the literal "Unknown",
\* whatever company the split computed.
WWRCompany(company) == S_Unknown

\* One <item>: the job dicts it adds to out (none when it is skipped).
WWRRecord(item) ==
  LET title == Text(item.title)
      apply_url == Text(item.link)
  IN  IF title = Empty \/ apply_url = Empty THEN <<>>
      ELSE LET sp == WWRSplit(title)
               raw_desc == Text(item.description)
           IN  IF /\ ~Contains(Lower(sp.title), S_python)
                  /\ ~Contains(Lower(raw_desc), S_python)
               THEN <<>>
               ELSE << JobDict(sp.title, WWRCompany(sp.company), S_Remote,
                               S_weworkremotely, RoleTypeEntry(sp.title),
                               Or(Text(item.pubDate), S_unknown), None,
                               apply_url) >>

\* The loop over channel.findall("item") from item i on.
RECURSIVE WWRLoop(_, _, _, _)
WWRLoop(items, i, acc, limit) ==
  IF i > Len(items) THEN acc
  ELSE LET acc2 == acc \o WWRRecord(items[i]) IN
       IF Len(acc2) > Len(acc) /\ Len(acc2) >= limit THEN acc2
       ELSE WWRLoop(items, i + 1, acc2, limit)

\* str(e) of the HTTPError of resp.raise_for_status()
E_HTTP == <<"5","0","3"," ","S","e","r","v","e","r"," ","E","r","r","o","r">>

\* What an adapter call does: it raises, or returns its list.
Raises(msg) == [raised |-> TRUE, msg |-> msg, jobs |-> <<>>]
Returns(js) == [raised |-> FALSE, msg |-> Empty, jobs |-> js]

\* scrape_weworkremotely(limit) when the feed answers fd.
scrape_weworkremotely(fd, limit) ==
  IF ~fd.status_ok THEN Raises(E_HTTP)
  ELSE IF ~fd.parse_ok THEN Raises(E_WWR)
  ELSE IF ~fd.channel THEN Returns(<<>>)
  ELSE Returns(WWRLoop(fd.items, 1, <<>>, limit))

\* ------------------------------------------------- the two JSON-API adapters
\* An element of the JSON array: a dict (a key it lacks reads as None; tags
\* is the list j.get("tags") or []) or something else.
RawJob(title, position, company, url, link, tags) ==
  [isdict |-> TRUE, title |-> title, position |-> position,
   company |-> company, company_name |-> None, url |-> url, link |-> link,
   location |-> None, tags |-> tags, date |-> None, created_at |-> None]

NonDict == [RawJob(None, None, None, None, None, <<>>) EXCEPT !.isdict = FALSE]

\* str(a or b or "unknown")
DateText(a, b) == Or(Or(a, b), S_unknown)

\* One job of the RemoteOK array: the dicts it adds to out.
RemoteOKRecord(j) ==
  LET title == Strip(Or(j.position, Empty))
      company == Strip(Or(j.company, S_Unknown))
      apply_url == Strip(Or(j.url, Empty))
      tags == [i \in DOMAIN j.tags |-> Lower(j.tags[i])]
  IN  IF title = Empty \/ apply_url = Empty THEN <<>>
      ELSE IF /\ ~Contains(Lower(title), S_python)
              /\ ~\E i \in DOMAIN tags : tags[i] = S_python
      THEN <<>>
      ELSE << JobDict(title, company, S_Remote, S_remoteok,
                      RoleTypeEntry(title), DateText(j.date, None), None,
                      apply_url) >>

\* One element of the GitHub Jobs array: the dicts it adds to out.
GitHubRecord(j) ==
  IF ~j.isdict THEN <<>>
  ELSE LET title == Strip(Or(Or(j.title, j.position), Empty))
           company == Strip(Or(Or(j.company, j.company_name), S_Unknown))
           apply_url == Strip(Or(Or(j.url, j.link), Empty))
       IN  IF title = Empty \/ apply_url = Empty THEN <<>>
           ELSE << JobDict(title, company, Strip(Or(j.location, S_Remote)),
                           S_github_jobs, RoleTypeEntry(title),
                           DateText(j.date, j.created_at), None, apply_url) >>

\* The loop over jobs from element i on; it stops once out holds limit
\* dicts.
RECURSIVE RemoteOKLoop(_, _, _, _)
RemoteOKLoop(items, i, acc, limit) ==
  IF i > Len(items) THEN acc
  ELSE LET acc2 == acc \o RemoteOKRecord(items[i]) IN
       IF Len(acc2) > Len(acc) /\ Len(acc2) >= limit THEN acc2
       ELSE RemoteOKLoop(items, i + 1, acc2, limit)

\* The loop over data from element i on; it returns once out holds limit
\* dicts.
RECURSIVE GitHubLoop(_, _, _, _)
GitHubLoop(items, i, acc, limit) ==
  IF i > Len(items) THEN acc
  ELSE LET acc2 == acc \o GitHubRecord(items[i]) IN
       IF Len(acc2) > Len(acc) /\ Len(acc2) >= limit THEN acc2
       ELSE GitHubLoop(items, i + 1, acc2, limit)

\* scrape_remoteok_python(limit) when the API answers fd: data[0] is
\* metadata, the non-dicts among the rest are left out.
scrape_remoteok_python(fd, limit) ==
  IF ~fd.status_ok THEN Raises(E_HTTP)
  ELSE IF ~fd.parse_ok THEN Raises(E_RemoteOK)
  ELSE LET rest == IF fd.items = <<>> THEN <<>> ELSE Tail(fd.items)
           js == SelectSeq(rest, LAMBDA j : j.isdict)
       IN  Returns(RemoteOKLoop(js, 1, <<>>, limit))

\* scrape_github_jobs(limit) when the legacy API answers fd: any failure of
\* the request or of the JSON parse leaves data = [].
scrape_github_jobs(fd, limit) ==
  LET data == IF ~fd.status_ok \/ ~fd.parse_ok THEN <<>> ELSE fd.items
  IN  Returns(GitHubLoop(data, 1, <<>>, limit))

\* -------------------------------------------------------- the Rozee adapter
S_RozeeOrigin == <<"h","t","t","p","s",":","/","/","w","w","w",".","r","o","z","e","e",".","p","k">>

\* The words of s joined by single spaces; s has no leading whitespace.
RECURSIVE Collapse(_)
Collapse(s) ==
  IF s = <<>> THEN <<>>
  ELSE IF IsSpace(Head(s)) THEN <<" ">> \o Collapse(LStrip(s))
  ELSE <<Head(s)>> \o Collapse(Tail(s))

\* _clean(text): " ".join(text.split()).strip()
Clean(text) == IF ~Truthy(text) THEN Empty ELSE Strip(Collapse(Strip(text)))

\* _infer_role_type(title)
infer_role_type(title) ==
  LET t == Lower(title) IN
  IF Contains(t, S_intern) THEN S_intern
  ELSE IF Contains(t, S_trainee) THEN S_trainee
  ELSE S_junior

\* A job card: has_a says whether card.select_one("a") finds an anchor,
\* a_text is its get_text(), a_href its href or None; the other elements
\* are their text, None when select_one finds nothing.
Card(has_a, a_text, a_href, company) ==
  [has_a |-> has_a, a_text |-> a_text, a_href |-> a_href,
   company |-> company, location |-> None, date |-> None]

\* One card: the dicts it adds to results.
RozeeRecord(card) ==
  IF ~card.has_a THEN <<>>
  ELSE LET title == Clean(card.a_text)
           href == Or(card.a_href, Empty)
           apply_url == IF href # Empty /\ StartsWith(href, <<"/">>)
                        THEN S_RozeeOrigin \o href ELSE href
       IN  IF apply_url = Empty THEN <<>>
           ELSE << JobDict(title,
                           IF card.company = None THEN S_Unknown ELSE Clean(card.company),
                           IF card.location = None THEN S_Lahore ELSE Clean(card.location),
                           S_rozee, infer_role_type(title),
                           IF card.date = None THEN S_unknown ELSE Clean(card.date),
                           None, apply_url) >>

RECURSIVE RozeeCards(_, _)
RozeeCards(cards, i) ==
  IF i > Len(cards) THEN <<>>
  ELSE RozeeRecord(cards[i]) \o RozeeCards(cards, i + 1)

\* The loop over the pages from page p on: raise_for_status() of any page
\* raises out of the adapter, the results of earlier pages with it.
RECURSIVE RozeePages(_, _, _)
RozeePages(pages, p, results) ==
  IF p > Len(pages) THEN Returns(results)
  ELSE IF ~pages[p].status_ok THEN Raises(E_Rozee)
  ELSE RozeePages(pages, p + 1, results \o RozeeCards(pages[p].cards, 1))

\* scrape_rozee_python_lahore(max_pages) when the site answers page p with
\* pages[p]; max_pages = len(pages).
scrape_rozee_python_lahore(pages) == RozeePages(pages, 1, <<>>)

\* --------------------------------------------------- inputs of the adapters
MaxItems == 2
MaxPages == 2
MaxFrags == 4

RECURSIVE Flatten(_)
Flatten(ss) == IF ss = <<>> THEN <<>> ELSE Head(ss) \o Flatten(Tail(ss))

\* Feed titles: up to MaxFrags of these fragments in a row.
Frags == {S_Python, C_Acme, S_at, S_dash}
FragTitles == { Flatten(fs) : fs \in SeqsUpTo(Frags, MaxFrags) \ {<<>>} }

T_PyIntern == <<" ","P","y"," ","I","n","t","e","r","n","\n">>
T_PyDev == <<" ","P","y","\n"," ","D","e","v"," ">>
D_py == <<"A"," ","p","y","t","h","o","n"," ","j","o","b">>

Item(title, link, description) ==
  [title |-> title, link |-> link, description |-> description, pubDate |-> None]

WWRFeed(status_ok, parse_ok, channel, items, limit) ==
  [kind |-> "wwr", status_ok |-> status_ok, parse_ok |-> parse_ok,
   channel |-> channel, items |-> items, limit |-> limit]

WWRFeeds ==
  { WWRFeed(FALSE, TRUE, TRUE, <<>>, 1), WWRFeed(TRUE, FALSE, TRUE, <<>>, 1),
    WWRFeed(TRUE, TRUE, FALSE, <<>>, 1) } \cup
  { WWRFeed(TRUE, TRUE, TRUE, <<Item(t, U2, d)>>, 1) :
      t \in FragTitles, d \in {None, D_py} } \cup
  { WWRFeed(TRUE, TRUE, TRUE, is, n) :
      is \in SeqsUpTo({ Item(t, l, None) : t \in {None, <<" ">>, S_Python},
                                          l \in {None, <<" ">>, U2} }, MaxItems),
      n \in 1..MaxItems }

JsonFeed(kind, status_ok, parse_ok, items, limit) ==
  [kind |-> kind, status_ok |-> status_ok, parse_ok |-> parse_ok,
   items |-> items, limit |-> limit]

\* data[0] of the RemoteOK array, the metadata, here a dict that would pass
\* as a job.
Meta == RawJob(None, S_Python, None, U2, None, <<>>)

RemoteOKItems ==
  { RawJob(None, p, None, u, None, tg) :
      p \in {None, Empty, <<" ">>, S_Python, T_PyIntern},
      u \in {None, <<" ">>, U2}, tg \in {<<>>, <<S_Python>>} } \cup {NonDict}

RemoteOKFeeds ==
  { JsonFeed("remoteok", FALSE, TRUE, <<>>, 1),
    JsonFeed("remoteok", TRUE, FALSE, <<>>, 1),
    JsonFeed("remoteok", TRUE, TRUE, <<>>, 1) } \cup
  { JsonFeed("remoteok", TRUE, TRUE, <<Meta>> \o js, n) :
      js \in SeqsUpTo(RemoteOKItems, MaxItems), n \in 1..MaxItems }

GitHubItems ==
  { RawJob(t, p, None, u, l, <<>>) :
      t \in {None, S_Python}, p \in {None, <<" ">>, T_PyIntern},
      u \in {None, U2}, l \in {None, <<" ">>} } \cup {NonDict}

GitHubFeeds ==
  { JsonFeed("github_jobs", FALSE, TRUE, <<>>, 1),
    JsonFeed("github_jobs", TRUE, FALSE, <<>>, 1) } \cup
  { JsonFeed("github_jobs", TRUE, TRUE, js, n) :
      js \in SeqsUpTo(GitHubItems, MaxItems), n \in 1..MaxItems }

RozeeCardSet ==
  { Card(FALSE, Empty, None, None) } \cup
  { Card(TRUE, t, h, c) :
      t \in {Empty, T_PyDev}, h \in {None, Empty, <<"/","j">>, U2},
      c \in {None, <<" ","A","c","m","e"," ">>} }

Page(status_ok, cards) == [status_ok |-> status_ok, cards |-> cards]

RozeePageSet ==
  { Page(FALSE, <<>>), Page(TRUE, <<>>) } \cup
  { Page(TRUE, <<c>>) : c \in RozeeCardSet } \cup
  { Page(TRUE, <<c, d>>) :
      c, d \in { Card(TRUE, T_PyDev, U2, None), Card(TRUE, Empty, None, None),
                 Card(FALSE, Empty, None, None) } }

RozeeFeeds ==
  { [kind |-> "rozee", pages |-> ps] :
      ps \in SeqsUpTo(RozeePageSet, MaxPages) \ {<<>>} }

\* ------------------------------------------------------- the adapters, run
NoOut == [done |-> FALSE, raised |-> FALSE, msg |-> Empty, jobs |-> <<>>]

Done(r) == [done |-> TRUE, raised |-> r.raised, msg |-> r.msg, jobs |-> r.jobs]

AdapterInit ==
  /\ jobs = <<>>
  /\ clock = 0
  /\ op = NoOp
  /\ RefreshIdle
  /\ InsIdle
  /\ SearchIdle
  /\ feed \in WWRFeeds \cup RemoteOKFeeds \cup GitHubFeeds \cup RozeeFeeds
  /\ out = NoOut

ScrapeRozee ==
  /\ feed.kind = "rozee"
  /\ ~out.done
  /\ out' = Done(scrape_rozee_python_lahore(feed.pages))
  /\ UNCHANGED <<feed, adapterFrame>>

ScrapeRemoteOK ==
  /\ feed.kind = "remoteok"
  /\ ~out.done
  /\ out' = Done(scrape_remoteok_python(feed, feed.limit))
  /\ UNCHANGED <<feed, adapterFrame>>

ScrapeWWR ==
  /\ feed.kind = "wwr"
  /\ ~out.done
  /\ out' = Done(scrape_weworkremotely(feed, feed.limit))
  /\ UNCHANGED <<feed, adapterFrame>>

ScrapeGitHubJobs ==
  /\ feed.kind = "github_jobs"
  /\ ~out.done
  /\ out' = Done(scrape_github_jobs(feed, feed.limit))
  /\ UNCHANGED <<feed, adapterFrame>>

AdapterNext == ScrapeRozee \/ ScrapeRemoteOK \/ ScrapeWWR \/ ScrapeGitHubJobs

SpecAdapters == AdapterInit /\ [][AdapterNext]_vars

\* ------------------------------------------------- claims on the adapters
\* C7: every record an adapter emits has a non-empty title and a non-empty
\* apply_url.
C7_RequiredFields ==
  out.done =>
    \A i \in DOMAIN out.jobs :
      out.jobs[i].title # Empty /\ out.jobs[i].apply_url # Empty

\* C10: the RSS adapter emits the title and the company it split the feed
\* title into: on the first " at " if there is one (title before, company
\* after), else on the first " - "; the company is "Unknown" only when the
\* title holds neither separator.
C10_SplitCompany ==
  (out.done /\ feed.kind = "wwr" /\ Len(out.jobs) = 1 /\ Len(feed.items) = 1) =>
    LET t == Text(feed.items[1].title)
        job == out.jobs[1]
    IN  IF Contains(t, S_at)
        THEN /\ job.title = Strip(SplitOnce(t, S_at)[1])
             /\ job.company = Strip(SplitOnce(t, S_at)[2])
        ELSE IF Contains(t, S_dash)
        THEN {job.title, job.company} =
               {Strip(SplitOnce(t, S_dash)[1]), Strip(SplitOnce(t, S_dash)[2])}
        ELSE job.title = t /\ job.company = S_Unknown

\* ------------------------------------------------------ list_jobs, count_jobs
DaySec == 86400

S_lahore == <<"l","a","h","o","r","e">>
S_remote == <<"r","e","m","o","t","e">>

\* SQLite's s LIKE pat, no ESCAPE: % is any run of characters, _ any one
\* character, ASCII letters match without regard to case.
RECURSIVE Like(_, _)
Like(s, pat) ==
  IF pat = <<>> THEN s = <<>>
  ELSE IF Head(pat) = "%"
  THEN \E k \in 0..Len(s) : Like(SubSeq(s, k + 1, Len(s)), Tail(pat))
  ELSE IF s = <<>> THEN FALSE
  ELSE IF Head(pat) = "_" THEN Like(Tail(s), Tail(pat))
  ELSE LowerChar(Head(s)) = LowerChar(Head(pat)) /\ Like(Tail(s), Tail(pat))

\* f"%{q.lower()}%"
Pattern(q) == <<"%">> \o Lower(q) \o <<"%">>

\* The location bucket: only "lahore" and "remote" add a condition.
LocationCond(row, location) ==
  LET loc_lower == Lower(location) IN
  IF loc_lower = S_lahore THEN Like(Lower(row.location), Pattern(S_lahore))
  ELSE IF loc_lower = S_remote THEN Like(Lower(row.location), Pattern(S_remote))
  ELSE TRUE

\* The WHERE clause list_jobs builds.
ListWhere(row, f) ==
  /\ f.q # Empty =>
       \/ Like(Lower(row.title), Pattern(f.q))
       \/ Like(Lower(row.company), Pattern(f.q))
  /\ f.source # Empty => row.source = f.source
  /\ f.role_type # Empty => row.role_type = f.role_type
  /\ f.location # Empty => LocationCond(row, f.location)

\* The WHERE clause count_jobs builds.
CountWhere(row, f) ==
  /\ f.q # Empty =>
       \/ Like(Lower(row.title), Pattern(f.q))
       \/ Like(Lower(row.company), Pattern(f.q))
  /\ f.source # Empty => row.source = f.source
  /\ f.role_type # Empty => row.role_type = f.role_type
  /\ f.location # Empty => LocationCond(row, f.location)

\* ORDER BY scraped_at DESC, id DESC: the ids of the sequence ids, which is
\* in id order, in that order.
OrderDesc(tbl, ids) ==
  LET n == Len(ids) IN
  SortSeq([k \in 1..n |-> ids[n + 1 - k]],
          LAMBDA i, j : \/ tbl[i].scraped_at > tbl[j].scraped_at
                        \/ tbl[i].scraped_at = tbl[j].scraped_at /\ i > j)

\* LIMIT ? OFFSET ?: a negative LIMIT is no limit, a negative OFFSET is 0.
Paginate(rows, limit, offset) ==
  LET off == IF offset < 0 THEN 0 ELSE offset
      rest == SubSeq(rows, off + 1, Len(rows))
  IN  IF limit < 0 THEN rest ELSE Take(rest, limit)

\* The dict list_jobs returns for a row.
Selected(row, now) ==
  [title |-> row.title, company |-> row.company, location |-> row.location,
   source |-> row.source, role_type |-> row.role_type,
   posted_date |-> row.posted_date_text, apply_url |-> row.apply_url,
   scraped_at |-> row.scraped_at,
   is_new |-> IF row.scraped_at >= now - DaySec THEN 1 ELSE 0]

list_jobs(tbl, f, limit, offset, now) ==
  LET ids == OrderDesc(tbl, SelectSeq([i \in DOMAIN tbl |-> i],
                                      LAMBDA i : ListWhere(tbl[i], f)))
      page == Paginate(ids, limit, offset)
  IN  [k \in DOMAIN page |-> Selected(tbl[page[k]], now)]

count_jobs(tbl, f) == Cardinality({i \in DOMAIN tbl : CountWhere(tbl[i], f)})

\* ----------------------------------------------------- inputs of the search
MaxLimit == 2
MaxOffset == 2

Filters ==
  [q : {Empty, <<"p","y">>, <<"A","C">>, <<"_">>, <<"%">>, <<"z">>},
   source : {Empty, S_rozee, S_remoteok},
   role_type : {Empty, S_intern},
   location : {Empty, S_Lahore, <<"R","E","M","O","T","E">>, <<"K","h","i">>}]

\* Tables the store can hold: the seed data or none, then a batch, later.
SearchTables ==
  { insert_jobs(init_db(<<>>, seed, 0), b, 1).tbl :
      seed \in {<<>>, JOBS}, b \in SeqsUpTo(BatchJobs, 2) }

SearchInit ==
  /\ jobs \in SearchTables
  /\ clock = 1
  /\ op = NoOp
  /\ RefreshIdle
  /\ InsIdle
  /\ AdapterIdle
  /\ query = [f |-> [q |-> Empty, source |-> Empty, role_type |-> Empty,
                     location |-> Empty], limit |-> 0, offset |-> 0]
  /\ found = [page |-> <<>>, total |-> 0, done |-> FALSE]
  /\ csv = <<>>

\* The dashboard's two calls: list_jobs with limit and offset, count_jobs
\* with the same filters, for one request.
Search ==
  \E f \in Filters, limit \in 0..MaxLimit, offset \in 0..MaxOffset :
    /\ ~found.done
    /\ query' = [f |-> f, limit |-> limit, offset |-> offset]
    /\ found' = [page |-> list_jobs(jobs, f, limit, offset, clock),
                 total |-> count_jobs(jobs, f), done |-> TRUE]
    /\ UNCHANGED <<jobs, csv, searchFrame>>

SpecSearch == SearchInit /\ [][Search]_vars

\* ---------------------------------------------------- claims on the search
\* sub is in s, letter case aside.
ContainsNoCase(s, sub) == Contains(Lower(s), Lower(sub))

\* The filters as the claim reads them.
Satisfies(r, f) ==
  /\ f.q # Empty => ContainsNoCase(r.title, f.q) \/ ContainsNoCase(r.company, f.q)
  /\ f.source # Empty => r.source = f.source
  /\ f.role_type # Empty => r.role_type = f.role_type
  /\ Lower(f.location) \in {S_lahore, S_remote} =>
       ContainsNoCase(r.location, f.location)

\* C8: list_jobs returns only rows that satisfy all the filters given (q a
\* substring of title or company, letter case aside; source and role_type
\* equal; location lahore or remote contained in the location), count_jobs
\* is the number of rows that satisfy them, and a page holds
\* min(limit, max(0, total - offset)) rows.
C8_FilterCorrect ==
  found.done =>
    LET f == query.f
        matching == {i \in DOMAIN jobs : Satisfies(jobs[i], f)}
        rest == IF found.total > query.offset THEN found.total - query.offset ELSE 0
    IN  /\ \A k \in DOMAIN found.page :
             \E i \in matching : jobs[i].apply_url = found.page[k].apply_url
        /\ found.total = Cardinality(matching)
        /\ Len(found.page) = Min(query.limit, rest)

\* ------------------------------------------------------------- export_csv
\* limit=10000 of the list_jobs call of export_csv
EXPORT_LIMIT == 10000

\* The header row export_csv writes.
CsvHeader ==
  << <<"t","i","t","l","e">>, <<"c","o","m","p","a","n","y">>,
     <<"l","o","c","a","t","i","o","n">>, <<"s","o","u","r","c","e">>,
     <<"r","o","l","e","_","t","y","p","e">>,
     <<"p","o","s","t","e","d","_","d","a","t","e">>,
     <<"a","p","p","l","y","_","u","r","l">> >>

\* The row export_csv writes for a dict j of list_jobs: its seven fields
\* (their encoding as CSV text is left out).
CsvRow(j) ==
  <<j.title, j.company, j.location, j.source, j.role_type, j.posted_date,
    j.apply_url>>

\* export_csv(q, source, role_type, location): the rows of the body.
export_csv(tbl, f, now) ==
  LET js == list_jobs(tbl, f, EXPORT_LIMIT, 0, now)
  IN  <<CsvHeader>> \o [k \in DOMAIN js |-> CsvRow(js[k])]

\* ----------------------------------------------------- inputs of the export
\* str(n) of a natural number n
RECURSIVE DecStr(_)
DecStr(n) ==
  LET d == <<"0","1","2","3","4","5","6","7","8","9">>[(n % 10) + 1]
  IN  IF n < 10 THEN <<d>> ELSE DecStr(n \div 10) \o <<d>>

\* A store of n rows as insert_jobs leaves them, one URL each.
StoreOf(n) ==
  [i \in 1..n |->
     PayloadRow(JobDict(T_Py, C_Acme, S_Remote, S_remoteok, S_entry,
                        S_unknown, None, S_ExampleUrl \o <<"/">> \o DecStr(i)),
                0)]

ExportFilters ==
  [q : {Empty, <<"p","y">>},
   source : {Empty, S_rozee, S_remoteok},
   role_type : {Empty, S_intern, S_entry},
   location : {Empty, S_Lahore}]

\* The stores of the search, a store of as many rows as the limit and one of
\* one row more.
ExportTables == SearchTables \cup {StoreOf(EXPORT_LIMIT), StoreOf(EXPORT_LIMIT + 1)}

ExportInit ==
  /\ jobs \in ExportTables
  /\ clock = 1
  /\ op = NoOp
  /\ RefreshIdle
  /\ InsIdle
  /\ AdapterIdle
  /\ query = [f |-> [q |-> Empty, source |-> Empty, role_type |-> Empty,
                     location |-> Empty], limit |-> 0, offset |-> 0]
  /\ found = [page |-> <<>>, total |-> 0, done |-> FALSE]
  /\ csv = <<>>

\* GET /export.csv, for one request.
ExportCsv ==
  \E f \in ExportFilters :
    /\ csv = <<>>
    /\ query' = [f |-> f, limit |-> EXPORT_LIMIT, offset |-> 0]
    /\ csv' = export_csv(jobs, f, clock)
    /\ UNCHANGED <<jobs, found, searchFrame>>

SpecExport == ExportInit /\ [][ExportCsv]_vars

\* ---------------------------------------------------- claims on the export
\* C11: the rows export_csv writes after the header are exactly the rows
\* count_jobs counts for the same filters, in the order of the search
\* (scraped_at descending, then id descending), however many they are.
C11_ExportAll ==
  csv # <<>> =>
    LET all == list_jobs(jobs, query.f, -1, 0, clock)
    IN  /\ Len(csv) - 1 = count_jobs(jobs, query.f)
        /\ Tail(csv) = [k \in DOMAIN all |-> CsvRow(all[k])]

\* ------------------------------------------------------ role inference, run
MaxWords == 3

\* Titles: up to MaxWords of these words, a space between them.
RoleWords ==
  { S_Python, <<"I","n","t","e","r","n">>, <<"T","r","a","i","n","e","e">>,
    <<"J","U","N","I","O","R">>, <<"I","n","t","e","r","n","a","l">>,
    <<"S","e","n","i","o","r">> }

RECURSIVE JoinSpace(_)
JoinSpace(ws) ==
  IF Len(ws) = 1 THEN ws[1] ELSE ws[1] \o <<" ">> \o JoinSpace(Tail(ws))

RoleTitles == { JoinSpace(ws) : ws \in SeqsUpTo(RoleWords, MaxWords) \ {<<>>} }

\* One listing titled t, as each source would carry it, a Python listing
\* by its description or tag where the adapter asks for one.
RoleFeeds ==
  { WWRFeed(TRUE, TRUE, TRUE, <<Item(t, U2, D_py)>>, 1) : t \in RoleTitles } \cup
  { JsonFeed("remoteok", TRUE, TRUE,
             <<Meta, RawJob(None, t, None, U2, None, <<S_Python>>)>>, 1) :
      t \in RoleTitles } \cup
  { JsonFeed("github_jobs", TRUE, TRUE,
             <<RawJob(t, None, None, U2, None, <<>>)>>, 1) : t \in RoleTitles } \cup
  { [kind |-> "rozee", pages |-> <<Page(TRUE, <<Card(TRUE, t, U2, None)>>)>>] :
      t \in RoleTitles }

RoleInit ==
  /\ jobs = <<>>
  /\ clock = 0
  /\ op = NoOp
  /\ RefreshIdle
  /\ InsIdle
  /\ SearchIdle
  /\ feed \in RoleFeeds
  /\ out = NoOut

SpecRoles == RoleInit /\ [][AdapterNext]_vars

\* ------------------------------------------------ claims on role inference
\* The role the claim gives a title, dflt being the adapter's default.
RoleByPriority(title, dflt) ==
  LET lt == Lower(title) IN
  IF Contains(lt, S_intern) THEN S_intern
  ELSE IF Contains(lt, S_trainee) THEN S_trainee
  ELSE IF Contains(lt, S_junior) THEN S_junior
  ELSE dflt

\* C12: the role_type of every record an adapter emits is, by its
\* lower-cased title, intern if it contains "intern", else trainee if it
\* contains "trainee", else junior if it contains "junior", else the
\* adapter's default: junior for Rozee, entry for the other three.
C12_RolePriority ==
  out.done =>
    \A i \in DOMAIN out.jobs :
      out.jobs[i].role_type =
        RoleByPriority(out.jobs[i].title,
                       IF feed.kind = "rozee" THEN S_junior ELSE S_entry)

\* A RemoteOK record whose title holds both "intern" and "trainee" was
\* emitted as intern.
C12_Witness ==
  /\ out.done
  /\ feed.kind = "remoteok"
  /\ \E i \in DOMAIN out.jobs :
       /\ Contains(Lower(out.jobs[i].title), S_intern)
       /\ Contains(Lower(out.jobs[i].title), S_trainee)
       /\ out.jobs[i].role_type = S_intern

\* A Rozee record whose title holds none of the three words was emitted as
\* junior, one of another adapter as entry.
C12_WitnessDefault ==
  /\ out.done
  /\ \E i \in DOMAIN out.jobs :
       /\ ~Contains(Lower(out.jobs[i].title), S_intern)
       /\ ~Contains(Lower(out.jobs[i].title), S_trainee)
       /\ ~Contains(Lower(out.jobs[i].title), S_junior)
       /\ out.jobs[i].role_type = IF feed.kind = "rozee" THEN S_junior ELSE S_entry

\* ------------------------------------------------- claims on stored records
\* C13: no step of init_db or insert_jobs, the only writers of the table
\* (refresh writes through insert_jobs), changes a field of a stored row or
\* removes it: every row of the table is there, the same, after the step.
C13_Immutable ==
  [][\A i \in DOMAIN jobs : i \in DOMAIN jobs' /\ jobs'[i] = jobs[i]]_vars

\* insert_jobs was given a job with the URL of a stored row, another title
\* and a later time, and the row is as it was.
C13_Witness ==
  /\ op.name = "insert_jobs"
  /\ \E k \in DOMAIN op.batch, i \in DOMAIN op.before :
       /\ op.batch[k].apply_url = op.before[i].apply_url
       /\ op.batch[k].title # op.before[i].title
       /\ clock > op.before[i].scraped_at
       /\ jobs[i] = op.before[i]

\* ------------------------------------------ claims on the refresh timestamp
\* C14: _last_refresh_at is the time the last refresh() that passed the gate
\* completed, whatever its adapters did: a refresh that has returned its
\* report has set it, at or after its start, and a refresh() that starts
\* less than 30 s after that completion is rate-limited.
C14_StampOnCompletion ==
  LET l == g[1] IN
  /\ last_refresh_at = done_at
  /\ (pc[1] = 0 /\ resp[1].kind = "refreshed") =>
       /\ last_refresh_at # NoTime
       /\ last_refresh_at >= l.start
  /\ (l.start # NoTime /\ l.prev # NoTime
        /\ l.start - l.prev < REFRESH_COOLDOWN_SEC) =>
       /\ l.limited
       /\ resp[1] = RateLimitedResponse

\* A refresh that stored nothing completed 29 s after it started, and the
\* call 29 s after that completion, 58 s after that start, is rate-limited.
C14_Witness ==
  /\ jobs = <<>>
  /\ g[1].limited
  /\ g[1].prev = REFRESH_COOLDOWN_SEC - 1
  /\ g[1].start = 2 * (REFRESH_COOLDOWN_SEC - 1)
  /\ resp[1] = RateLimitedResponse

\* A refresh in which all four adapters raised has returned its report and
\* the timestamp is its completion time, later than its start.
C14_WitnessAllFailed ==
  /\ pc[1] = 0
  /\ resp[1].kind = "refreshed"
  /\ Len(g[1].invoked) = 4
  /\ \A k \in 1..4 : g[1].invoked[k].raised
  /\ last_refresh_at = clock
  /\ clock > g[1].start

\* ------------------------------------------- claims on the adapters' errors
\* C15: an adapter raises only when its first request fails, by its status
\* or in parsing its body: Rozee does not raise when a later page's request
\* fails and returns an empty list when the pages hold no card; GitHub Jobs
\* never raises and returns an empty list when its request or its parse
\* fails.
C15_RaisesOnlyInitial ==
  out.done =>
    /\ out.raised =>
         IF feed.kind = "rozee" THEN ~feed.pages[1].status_ok
         ELSE ~feed.status_ok \/ ~feed.parse_ok
    /\ (feed.kind = "rozee" /\ \A p \in DOMAIN feed.pages :
                                 feed.pages[p].status_ok /\ feed.pages[p].cards = <<>>) =>
         ~out.raised /\ out.jobs = <<>>
    /\ feed.kind = "github_jobs" =>
         /\ ~out.raised
         /\ (~feed.status_ok \/ ~feed.parse_ok) => out.jobs = <<>>

====
